---- MODULE Spec2Model ----
(***************************************************************************)
(* CompressedQuadtree (include/compressed_quadtree.h): construction of the *)
(* compressed 2^dim-ary tree and the approximate k-nearest-neighbour       *)
(* search over it.                                                         *)
(*                                                                         *)
(* Numbers.  Coordinates, midpoints and radii are doubles in the source.   *)
(* Here every length is an integer count of 1/Scale source units, so that  *)
(* the halvings of the radius the builder performs are exact; squared      *)
(* distances are counts of 1/Scale^2.  Comparisons between lengths and     *)
(* between squared distances are therefore the source's comparisons.       *)
(***************************************************************************)
EXTENDS Integers, Sequences, FiniteSets, TLC

\* ------------------------------------------------------------------ bounds
MaxDim == 3
MaxCoord == 4
MaxPts == 3
MaxK == 2
MaxEps == 1
MaxStopDepth == 1
UninitMag == 1000

\* ------------------------------------------------------- program constants
\* std::numeric_limits<double>::max(): larger than every value computed here
DblMax == 1000000000
\* locate_eps = 0.001 = 1 / LocateEpsInv source units
LocateEpsInv == 1000

\* ------------------------------------------------------------------ helpers
RECURSIVE Pow2(_)
Pow2(n) == IF n = 0 THEN 1 ELSE 2 * Pow2(n - 1)

RECURSIVE Pow2Ceil(_)
Pow2Ceil(n) == IF n <= 1 THEN 1 ELSE 2 * Pow2Ceil((n + 1) \div 2)

\* Units per source unit.  A node that is split holds two points at least one
\* source unit apart, so its radius is at least 1/2 and its children's at least
\* 1/4; the root radius is a multiple of 1/2 not above MaxCoord/2.
Scale == 4 * Pow2Ceil(MaxCoord)

RECURSIVE SumTo(_, _)
SumTo(f, n) == IF n = 0 THEN 0 ELSE f[n] + SumTo(f, n - 1)

VARIABLES
    dim,        \* CompressedQuadtree::dim
    range,      \* the caller's double *range: (min, max) per dimension, flat
    pts,        \* the caller's Point array; a Point * is an index 1..Len(pts)
    fn,         \* the EndBuildFn passed to the constructor
    phase,      \* "init", "built", "overflow", "loop", "done", "segv",
                \* and "dist", "distdone" for min_pt_dist_to_node alone
    region,     \* the mid and radius the constructor computes (its locals)
    heap,       \* the allocated Nodes; a Node * is an index, 0 is the null pointer
    root,       \* CompressedQuadtree::root
    k, q, eps,  \* the arguments of knn
    qr,         \* knn's result list
    pq,         \* knn's priority queue (the vector under the heap order)
    npush,      \* history: how often each node was pushed on pq
    min_dist    \* the value min_pt_dist_to_node returned last

vars == <<dim, range, pts, fn, phase, region, heap, root, k, q, eps, qr, pq,
          npush, min_dist>>

\* 1 << dim
nnodes == Pow2(dim)

\* ------------------------------------------------------------- input pools
\* Coordinates of the input and query points, in units
CoordVals == {0, Scale, MaxCoord * Scale}

\* Points of dimension dm.  From three dimensions on a point repeats its
\* first coordinate beyond the second dimension and has a second coordinate
\* at an end of the range, which keeps the pool small
PointPool(dm) ==
    { p \in [1..dm -> CoordVals] :
        dm >= 3 => /\ p[2] \in {0, MaxCoord * Scale}
                   /\ \A d \in 3..dm : p[d] = p[1] }

\* Query points: the pool's points away from the origin's faces
QueryPool(dm) == { p \in PointPool(dm) : \A d \in 1..dm : p[d] # 0 }

\* The range array as the caller lays it out: min of dimension d at
\* 0-based index 2d, max at 2d+1 (1-based 2d-1 and 2d here)
RangeLo(rg, d) == rg[2 * d - 1]
RangeHi(rg, d) == rg[2 * d]

\* Two ranges per dimension count: the cube [0, MaxCoord]^dm and the box
\* whose last dimension is [1, MaxCoord]
RangePool(dm) ==
    { [i \in 1..(2 * dm) |->
          IF i % 2 = 0 THEN MaxCoord * Scale
          ELSE IF i = 2 * dm - 1 THEN lo ELSE 0] : lo \in {0, Scale} }

InRange(p, rg, dm) ==
    \A d \in 1..dm : RangeLo(rg, d) <= p[d] /\ p[d] <= RangeHi(rg, d)

\* an order on the pool, whose points differ in their first two coordinates
PointKey(p, dm) ==
    IF dm = 1 THEN p[1] ELSE p[1] + p[2] * (MaxCoord * Scale + 1)

\* Point arrays of 1..MaxPts points inside the range, in a canonical order
\* (the order of the array decides no comparison of the program); equal
\* points are in the arrays iff dup
PointArrays(dm, rg, dup) ==
    LET pool == { p \in PointPool(dm) : InRange(p, rg, dm) }
    IN  { a \in UNION { [1..n -> pool] : n \in 1..MaxPts } :
            \A i \in 1..(Len(a) - 1) :
                /\ PointKey(a[i], dm) <= PointKey(a[i + 1], dm)
                /\ dup \/ a[i] # a[i + 1] }

\* The stop predicates: the default, which never stops (EndBuildFn), and
\* predicates that stop from a depth on, everywhere or only at nodes whose
\* first midpoint coordinate is below MaxCoord / 2
NeverStop == [never |-> TRUE, from |-> 0, lowOnly |-> FALSE]

StopFns ==
    { NeverStop } \cup
    { [never |-> FALSE, from |-> dp, lowOnly |-> b] :
        dp \in 0..MaxStopDepth, b \in BOOLEAN }

\* EndBuildFn::operator()(Node *, size_t depth), and its overriders
EndBuildFn(node, depth) ==
    /\ ~fn.never
    /\ depth >= fn.from
    /\ (fn.lowOnly => 2 * node.mid[1] < MaxCoord * Scale)

\* --------------------------------------------------------------- geometry
SqDist(a, b) == SumTo([d \in 1..dim |-> (a[d] - b[d]) * (a[d] - b[d])], dim)

\* Node::in_node: false iff some dimension has
\* mid[d] - radius - pt[d] > locate_eps or pt[d] - mid[d] - radius > locate_eps
in_node(node, pt) ==
    \A d \in 1..dim :
        ~ \/ (node.mid[d] - node.radius - pt[d]) * LocateEpsInv > Scale
          \/ (pt[d] - node.mid[d] - node.radius) * LocateEpsInv > Scale

\* n & (1 << d), d counted from 1 here
OrthantBit(n, d) == (n \div Pow2(d - 1)) % 2 = 1

\* the node index of a point: bit d set iff pt[d] > mid[d]
OrthantOf(pt, mid) ==
    SumTo([d \in 1..dim |-> IF pt[d] > mid[d] THEN Pow2(d - 1) ELSE 0], dim)

\* ChildMid with the orthant bit ignored
ChildMidUp(mid, new_radius, n) == [d \in 1..dim |-> mid[d] + new_radius]

\* new_mid of the child in slot n
ChildMid(mid, new_radius, n) ==
    [d \in 1..dim |-> IF OrthantBit(n, d) THEN mid[d] + new_radius
                                          ELSE mid[d] - new_radius]

\* NeedsCompress that keeps a node with a single child
NeedsCompressEmpty(ninteresting) == ninteresting < 1

\* the compression test on the number of non-empty orthants
NeedsCompress(ninteresting) == ninteresting < 2

\* ------------------------------------------------------------------ worker
NewNode(mid, radius, pt, nodes) ==
    [mid |-> mid, radius |-> radius, pt |-> pt, nodes |-> nodes]

Present(nodes) == { i \in 1..Len(nodes) : nodes[i] # 0 }

\* worker(mid, radius, pts, fn, depth) on the store h of nodes allocated so
\* far; P is the vector of Point *.  Returns the store, the Node * returned,
\* and ok = FALSE when the recursion does not end: a node that must be split
\* has a radius below the resolution of the input, so its points stay
\* together at every further level.
RECURSIVE worker(_, _, _, _, _)
RECURSIVE ChildrenFrom(_, _, _, _, _, _)

\* the loop over the 2^dim buckets from slot n (0-based) on
ChildrenFrom(n, mid, radius, P, depth, acc) ==
    IF n = nnodes \/ ~acc.ok THEN acc
    ELSE LET node_pts == SelectSeq(P, LAMBDA i : OrthantOf(pts[i], mid) = n)
         IN  IF node_pts = <<>>
             THEN ChildrenFrom(n + 1, mid, radius, P, depth,
                               [acc EXCEPT !.nodes = Append(@, 0)])
             ELSE LET new_radius == radius \div 2
                      r == worker(ChildMid(mid, new_radius, n), new_radius,
                                  node_pts, depth + 1, acc.heap)
                  IN  ChildrenFrom(n + 1, mid, radius, P, depth,
                                   [heap |-> r.heap,
                                    nodes |-> Append(acc.nodes, r.node),
                                    ok |-> r.ok])

worker(mid, radius, P, depth, h) ==
    IF Len(P) = 1
    THEN \* the predicate is called and its answer dropped
         [heap |-> Append(h, NewNode(mid, radius, P[1], <<>>)),
          node |-> Len(h) + 1, ok |-> TRUE]
    ELSE IF EndBuildFn(NewNode(mid, radius, 0, <<>>), depth)
    THEN [heap |-> Append(h, NewNode(mid, radius, 0, <<>>)),
          node |-> Len(h) + 1, ok |-> TRUE]
    ELSE IF radius % 2 # 0
    THEN [heap |-> h, node |-> 0, ok |-> FALSE]
    ELSE LET c == ChildrenFrom(0, mid, radius, P, depth,
                               [heap |-> h, nodes |-> <<>>, ok |-> TRUE])
             ninteresting == Cardinality(Present(c.nodes))
         IN  IF ~c.ok THEN [heap |-> c.heap, node |-> 0, ok |-> FALSE]
             ELSE IF NeedsCompress(ninteresting) /\ ninteresting # 0
             THEN \* the first present child replaces the node
                  [heap |-> c.heap,
                   node |-> c.nodes[CHOOSE i \in Present(c.nodes) :
                                    \A j \in Present(c.nodes) : i <= j],
                   ok |-> TRUE]
             ELSE [heap |-> Append(c.heap, NewNode(mid, radius, 0, c.nodes)),
                   node |-> Len(c.heap) + 1, ok |-> TRUE]

\* ------------------------------------------------------------- constructor
\* range[i], i 0-based, as the constructor reads it: beyond the end of the
\* caller's array the read yields oob[i]
ReadRange(rg, i, oob) == IF i < Len(rg) THEN rg[i + 1] ELSE oob[i]

\* the 0-based indices the constructor reads: d*dim and d*dim + 1
CtorReads(dm) == UNION { {(d - 1) * dm, (d - 1) * dm + 1} : d \in 1..dm }

\* what the reads beyond the end of the array can yield: one value at the
\* even indices and one at the odd ones
OobVals == {0, MaxCoord * Scale}

OobReads(dm, rg) ==
    { [i \in {j \in CtorReads(dm) : j >= Len(rg)} |->
          IF i % 2 = 0 THEN a ELSE b] : a \in OobVals, b \in OobVals }

RECURSIVE CtorRadius(_, _, _, _)
CtorRadius(rg, dm, oob, d) ==
    IF d = 0 THEN 0
    ELSE LET radius == CtorRadius(rg, dm, oob, d - 1)
             side == (ReadRange(rg, (d - 1) * dm + 1, oob)
                      - ReadRange(rg, (d - 1) * dm, oob)) \div 2
         IN  IF side > radius THEN side ELSE radius

\* the mid point and half side length computed by the constructor
CtorRegion(rg, dm, oob) ==
    [mid |-> [d \in 1..dm |->
                 (ReadRange(rg, (d - 1) * dm, oob)
                  + ReadRange(rg, (d - 1) * dm + 1, oob)) \div 2],
     radius |-> CtorRadius(rg, dm, oob, dm)]

NoPoint == <<>>

\* the state before the constructor runs, the inputs apart
Unbuilt ==
    /\ phase = "init"
    /\ region = [mid |-> NoPoint, radius |-> 0]
    /\ heap = <<>>
    /\ root = 0
    /\ k = 0 /\ q = NoPoint /\ eps = 0
    /\ qr = <<>> /\ pq = <<>> /\ npush = <<>>
    /\ min_dist = 0

\* Inputs of the build alone: every dimension count, both ranges, every
\* stop predicate of the family, arrays with equal points
InitBuild ==
    /\ dim \in 1..MaxDim
    /\ range \in RangePool(dim)
    /\ pts \in PointArrays(dim, range, TRUE)
    /\ fn \in StopFns
    /\ Unbuilt

\* Inputs of build and search: one, two and MaxDim dimensions, the cube
\* range, distinct points, the default predicate and one that stops
CubeRange(dm) == [i \in 1..(2 * dm) |-> IF i % 2 = 0 THEN MaxCoord * Scale ELSE 0]

Init ==
    /\ dim \in {1, 2, MaxDim}
    /\ range = CubeRange(dim)
    /\ pts \in PointArrays(dim, range, FALSE)
    /\ fn \in {NeverStop, [never |-> FALSE, from |-> MaxStopDepth, lowOnly |-> FALSE]}
    /\ Unbuilt

\* CompressedQuadtree(dim, pts, n, range, fn)
Construct ==
    /\ phase = "init"
    /\ \E oob \in OobReads(dim, range) :
       \E rgn \in {CtorRegion(range, dim, oob)} :
       \E r \in {worker(rgn.mid, rgn.radius, [i \in 1..Len(pts) |-> i], 0, <<>>)} :
         /\ region' = rgn
         /\ heap' = r.heap
         /\ root' = r.node
         /\ phase' = IF r.ok THEN "built" ELSE "overflow"
    /\ UNCHANGED <<dim, range, pts, fn, k, q, eps, qr, pq, npush, min_dist>>

NextBuild == Construct

SpecBuild == InitBuild /\ [][NextBuild]_vars

\* ------------------------------------------------------ min_pt_dist_to_node
\* The values a read of the local dist can yield in a dimension where no
\* branch assigned it: something not below any gap, something negative
UninitVals == {UninitMag, 0 - UninitMag}

\* pt[d] lies within [mid[d] - radius, mid[d] + radius]
WithinDim(pt, node, d) ==
    /\ ~(pt[d] < node.mid[d] - node.radius)
    /\ ~(pt[d] > node.mid[d] + node.radius)

\* dist as the comparison with min_dist reads it in dimension d; u[d] is the
\* indeterminate value of the unassigned local
DistRead(pt, node, d, u) ==
    IF pt[d] < node.mid[d] - node.radius
    THEN node.mid[d] - node.radius - pt[d]
    ELSE IF pt[d] > node.mid[d] + node.radius
    THEN pt[d] - (node.mid[d] + node.radius)
    ELSE u[d]

\* min_dist after the dimensions 1..d of the loop
RECURSIVE MinDistAfter(_, _, _, _)
MinDistAfter(pt, node, d, u) ==
    IF d = 0 THEN DblMax
    ELSE LET before == MinDistAfter(pt, node, d - 1, u)
             dist == DistRead(pt, node, d, u)
         IN  IF dist < before THEN dist ELSE before

min_pt_dist_to_node(pt, node, u) ==
    IF \A d \in 1..dim : WithinDim(pt, node, d) THEN 0
    ELSE MinDistAfter(pt, node, dim, u) * MinDistAfter(pt, node, dim, u)

\* every value one call can return
MinDistOutcomes(pt, node) ==
    { min_pt_dist_to_node(pt, node,
          [d \in 1..dim |-> IF WithinDim(pt, node, d) THEN u[d] ELSE 0]) :
      u \in [{d \in 1..dim : WithinDim(pt, node, d)} -> UninitVals] }

\* --------------------------------------------------------------------- knn
\* InsertPos that always inserts at the front
InsertPosFront(list, dist) == 1

\* the position qr.insert is given: before the first entry whose distance is
\* not below dist (1-based; Len + 1 is the end)
InsertPos(list, dist) ==
    LET notless == { i \in 1..Len(list) : ~(list[i].second < dist) }
    IN  IF notless = {} THEN Len(list) + 1
        ELSE CHOOSE i \in notless : \A j \in notless : i <= j

\* qr.insert(itor, make_pair(pt, dist))
InsertAt(list, pos, e) ==
    SubSeq(list, 1, pos - 1) \o <<e>> \o SubSeq(list, pos, Len(list))

\* if (qr.size() > k) qr.pop_back()
TrimTo(list, kk) ==
    IF Len(list) > kk THEN SubSeq(list, 1, Len(list) - 1) ELSE list

\* qr.size() < k ? numeric_limits<double>::max() : qr.back().second
KthDist(list, kk) == IF Len(list) < kk THEN DblMax ELSE list[Len(list)].second

\* kth_dist <= (1.0 + eps) * node_dist
StopSearch(kth_dist, e, node_dist) == kth_dist <= (1 + e) * node_dist

\* the entries std::pop_heap may move to the back: one of least distance
\* (the order among equal distances is the library's)
PopChoices ==
    { i \in 1..Len(pq) : \A j \in 1..Len(pq) : pq[i].distance <= pq[j].distance }

RemoveAt(list, i) == SubSeq(list, 1, i - 1) \o SubSeq(list, i + 1, Len(list))

\* the children pushed by the loop over the slots, in slot order, given the
\* bound b[n] computed for each present slot n
RECURSIVE Pushed(_, _, _, _)
Pushed(nodes, n, b, kth_dist) ==
    IF n = 0 THEN <<>>
    ELSE LET rest == Pushed(nodes, n - 1, b, kth_dist)
         IN  IF nodes[n] # 0 /\ b[n] < kth_dist
             THEN Append(rest, [node |-> nodes[n], distance |-> b[n]])
             ELSE rest

\* knn(k, pt, eps) up to the loop
KnnCall ==
    /\ phase \in {"built", "done"}
    /\ k' \in {1, MaxK}
    /\ q' \in QueryPool(dim)
    /\ eps' \in {0, MaxEps}
    /\ qr' = <<>>
    /\ pq' = <<[node |-> root, distance |-> 0]>>
    /\ npush' = [i \in 1..Len(heap) |-> IF i = root THEN 1 ELSE 0]
    /\ phase' = "loop"
    /\ UNCHANGED <<dim, range, pts, fn, region, heap, root, min_dist>>

\* one iteration that pops a node without children and with a point
IterLeaf ==
    /\ phase = "loop"
    /\ \E i \in PopChoices :
         LET node == heap[pq[i].node]
         IN  /\ node.nodes = <<>>
             /\ node.pt # 0
             /\ \E dist \in {SqDist(pts[node.pt], q)} :
                  qr' = TrimTo(InsertAt(qr, InsertPos(qr, dist),
                                        [first |-> node.pt, second |-> dist]), k)
             /\ pq' = RemoveAt(pq, i)
    /\ UNCHANGED <<dim, range, pts, fn, phase, region, heap, root, k, q, eps,
                   npush, min_dist>>

\* one iteration that pops a node without children and without a point:
\* (*node->pt)[d] reads through the null pointer
IterNullPoint ==
    /\ phase = "loop"
    /\ \E i \in PopChoices :
         /\ heap[pq[i].node].nodes = <<>>
         /\ heap[pq[i].node].pt = 0
         /\ pq' = RemoveAt(pq, i)
    /\ phase' = "segv"
    /\ UNCHANGED <<dim, range, pts, fn, region, heap, root, k, q, eps, qr,
                   npush, min_dist>>

\* one iteration that pops an internal node and leaves the loop
IterBreak ==
    /\ phase = "loop"
    /\ \E i \in PopChoices :
         /\ heap[pq[i].node].nodes # <<>>
         /\ StopSearch(KthDist(qr, k), eps, pq[i].distance)
         /\ pq' = RemoveAt(pq, i)
    /\ phase' = "done"
    /\ UNCHANGED <<dim, range, pts, fn, region, heap, root, k, q, eps, qr,
                   npush, min_dist>>

\* one iteration that pops an internal node and visits its children
IterExpand ==
    /\ phase = "loop"
    /\ \E i \in PopChoices :
         LET nodes == heap[pq[i].node].nodes
             kth_dist == KthDist(qr, k)
             out == [n \in Present(nodes) |-> MinDistOutcomes(q, heap[nodes[n]])]
         IN  /\ nodes # <<>>
             /\ ~StopSearch(kth_dist, eps, pq[i].distance)
             /\ \E b \in [Present(nodes) -> UNION {out[n] : n \in Present(nodes)}] :
                  /\ \A n \in Present(nodes) : b[n] \in out[n]
                  /\ \E add \in {Pushed(nodes, Len(nodes), b, kth_dist)} :
                       /\ pq' = RemoveAt(pq, i) \o add
                       /\ npush' = [j \in 1..Len(heap) |->
                                      npush[j] + Cardinality(
                                        {m \in 1..Len(add) : add[m].node = j})]
    /\ UNCHANGED <<dim, range, pts, fn, phase, region, heap, root, k, q, eps,
                   qr, min_dist>>

\* the loop condition fails: return qr
LoopExit ==
    /\ phase = "loop"
    /\ pq = <<>>
    /\ phase' = "done"
    /\ UNCHANGED <<dim, range, pts, fn, region, heap, root, k, q, eps, qr, pq,
                   npush, min_dist>>

Next ==
    \/ Construct
    \/ KnnCall
    \/ IterLeaf
    \/ IterNullPoint
    \/ IterBreak
    \/ IterExpand
    \/ LoopExit

Spec == Init /\ [][Next]_vars

\* ------------------------------------- min_pt_dist_to_node taken on its own
RegionRadii == {Scale \div 2, Scale}

InitDist ==
    /\ dim \in 1..MaxDim
    /\ range = <<>>
    /\ pts = <<>>
    /\ fn = [never |-> TRUE, from |-> 0, lowOnly |-> FALSE]
    /\ phase = "dist"
    /\ region = [mid |-> NoPoint, radius |-> 0]
    /\ \E mid \in PointPool(dim), radius \in RegionRadii :
         heap = <<NewNode(mid, radius, 0, <<>>)>>
    /\ root = 1
    /\ k = 0 /\ q \in PointPool(dim) /\ eps = 0
    /\ qr = <<>> /\ pq = <<>> /\ npush = <<>>
    /\ min_dist = 0

\* one call min_pt_dist_to_node(q, root)
CallMinDist ==
    /\ phase = "dist"
    /\ min_dist' \in MinDistOutcomes(q, heap[root])
    /\ phase' = "distdone"
    /\ UNCHANGED <<dim, range, pts, fn, region, heap, root, k, q, eps, qr, pq,
                   npush>>

NextDist == CallMinDist

SpecDist == InitDist /\ [][NextDist]_vars

\* ================================================================== claims
Built == phase \in {"built", "loop", "done", "segv"}

Internal(i) == heap[i].nodes # <<>>

\* squared distance from the query point to input point i
D(i) == SqDist(pts[i], q)

\* the squared distance of the kk-th nearest input point (kk <= n)
TrueKth(kk) ==
    LET cand == { D(i) : i \in { j \in 1..Len(pts) :
                     Cardinality({ m \in 1..Len(pts) : D(m) <= D(j) }) >= kk } }
    IN  CHOOSE v \in cand : \A w \in cand : v <= w

Returned == { qr[i].first : i \in 1..Len(qr) }

\* C1: on a tree built with the never-stop predicate from points inside the
\* range, knn(k, q, 0) with k <= n returns k points that are a brute-force
\* answer: k distinct input points, none farther from q than an input point
\* left out (any order among equal distances is accepted).
C1_ExactKnn ==
    (phase = "done" /\ fn.never /\ eps = 0 /\ k <= Len(pts)) =>
        /\ Len(qr) = k
        /\ Cardinality(Returned) = k
        /\ \A i \in Returned : \A j \in (1..Len(pts)) \ Returned : D(i) <= D(j)

\* C2: every pair knn(k, q, eps) returns has a squared distance of at most
\* (1 + eps) times the squared distance of the true k-th nearest input point.
C2_ApproxKnn ==
    (phase = "done" /\ k <= Len(pts)) =>
        \A i \in 1..Len(qr) : qr[i].second <= (1 + eps) * TrueKth(k)

\* C3: after every iteration of the search loop, and in the returned list,
\* the result list is non-decreasing in squared distance and holds at most k
\* and at most n entries.
C3_ResultOrdered ==
    (phase \in {"loop", "done", "segv"}) =>
        /\ \A i \in 1..(Len(qr) - 1) : qr[i].second <= qr[i + 1].second
        /\ Len(qr) <= k
        /\ Len(qr) <= Len(pts)

\* a search that returned k = 2 results of different distance out of three
\* points, all three having been inserted
C3_Witness ==
    /\ phase = "done"
    /\ Len(pts) = 3
    /\ k = 2 /\ Len(qr) = 2
    /\ qr[1].second < qr[2].second
    /\ \A i \in 1..3 : npush[CHOOSE j \in 1..Len(heap) : heap[j].pt = i] = 1

\* C4: in every tree the build produces, no node with a child array has
\* fewer than 2 present children.
C4_Compression ==
    Built => \A i \in 1..Len(heap) :
                 Internal(i) => Cardinality(Present(heap[i].nodes)) >= 2

\* a tree whose root is an internal node two levels below the constructor's
\* region: two single-orthant nodes in a row were compressed away
C4_Witness ==
    /\ phase = "built"
    /\ Internal(root)
    /\ heap[root].radius * 4 = region.radius

\* C5: in a tree built with the never-stop predicate from points inside the
\* range, the Region of the leaf that stores a point contains it (in_node).
C5_Coverage ==
    (Built /\ fn.never) =>
        \A i \in 1..Len(heap) :
            heap[i].pt # 0 => in_node(heap[i], pts[heap[i].pt])

\* the point of the Region nearest to pt
Clamp(pt, node) ==
    [d \in 1..dim |->
        IF pt[d] < node.mid[d] - node.radius THEN node.mid[d] - node.radius
        ELSE IF pt[d] > node.mid[d] + node.radius THEN node.mid[d] + node.radius
        ELSE pt[d]]

\* C6: the bound min_pt_dist_to_node returns is never greater than the
\* squared distance from the query point to a point inside the Region (the
\* nearest such point stands for all of them).
C6_LowerBound ==
    phase = "distdone" => min_dist <= SqDist(q, Clamp(q, heap[root]))

\* C7: knn terminates: every node is pushed at most once, and the loop ends
\* at the early-termination test or on the empty queue, never otherwise.
C7_Terminates ==
    /\ \A j \in 1..Len(npush) : npush[j] <= 1
    /\ phase # "segv"

\* the gap between pt[d] and the interval [mid[d] - radius, mid[d] + radius]
Gap(pt, node, d) ==
    IF pt[d] < node.mid[d] - node.radius THEN node.mid[d] - node.radius - pt[d]
    ELSE IF pt[d] > node.mid[d] + node.radius THEN pt[d] - node.mid[d] - node.radius
    ELSE 0

\* C8: the bound is 0 when the query point is inside the Region in every
\* dimension, and otherwise the square of the largest per-dimension gap.
C8_LargestGap ==
    phase = "distdone" =>
        \E d \in 1..dim :
            /\ \A e \in 1..dim : Gap(q, heap[root], e) <= Gap(q, heap[root], d)
            /\ min_dist = Gap(q, heap[root], d) * Gap(q, heap[root], d)

\* the centre the claim gives the child in slot s (1-based) of node i
SlotCentre(i, s, d) ==
    IF OrthantBit(s - 1, d) THEN heap[i].mid[d] + heap[i].radius \div 2
                            ELSE heap[i].mid[d] - heap[i].radius \div 2

HalfExtent(d) == (RangeHi(range, d) - RangeLo(range, d)) \div 2

\* C10: the constructor's region has, in each dimension, the midpoint of that
\* dimension's (min, max) and, as radius, the largest half extent, so it
\* covers the range.
C10_RootRegion ==
    phase \in {"built", "overflow"} =>
        /\ \A d \in 1..dim :
             /\ 2 * region.mid[d] = RangeLo(range, d) + RangeHi(range, d)
             /\ region.mid[d] - region.radius <= RangeLo(range, d)
             /\ RangeHi(range, d) <= region.mid[d] + region.radius
        /\ \E d \in 1..dim : region.radius = HalfExtent(d)
        /\ \A d \in 1..dim : HalfExtent(d) <= region.radius

\* C11: in every tree the build produces, whatever the stop predicate, a node
\* that knn handles as a leaf (a node without a child array) holds a point
\* reference, also where the predicate stopped at more than one point; so no
\* entry of the search queue is such a node without a point.
C11_LeafHasPoint ==
    Built =>
        /\ \A i \in 1..Len(heap) : ~Internal(i) => heap[i].pt # 0
        /\ \A j \in 1..Len(pq) : ~Internal(pq[j].node) => heap[pq[j].node].pt # 0

====
